---- MODULE Spec2Model ----
(***************************************************************************)
(* Model of src/ImageGenerator.py: the prompt validator                    *)
(* (validate_prompt_security), credential retrieval (get_api_key_safely),  *)
(* the rate limiter (check_rate_limits), the sequential image request loop *)
(* (make_secure_api_request) and the session state handled by main().      *)
(*                                                                         *)
(* Python strings are sequences of one-character strings.  A Python value  *)
(* is a record [type, text]; only values of type "str" carry text.         *)
(***************************************************************************)
EXTENDS Integers, Sequences, FiniteSets, TLC

VARIABLES
    \* ---- validator harness (SpecValidate) ----
    vphase,             \* "input" | "validated" | "revalidated"
    raw,                \* the Python value handed to validate_prompt_security
    res1,               \* validate_prompt_security(raw)
    res2,               \* validate_prompt_security(res1.cleaned_prompt)
    \* ---- session (Spec) ----
    generated_images,   \* st.session_state.generated_images
    generation_count,   \* st.session_state.generation_count
    daily_limit_reached,\* st.session_state.daily_limit_reached
    cfg,                \* configuration origins: [secrets, env]
    rendered,           \* the last page run drew an enabled Generate button
    pc,                 \* "idle" | "request" | "calling" | "returned" | "rerun"
    clean_prompt,       \* argument of make_secure_api_request
    i,                  \* loop index of the loop over range(2)
    image_urls,         \* accumulator of make_secure_api_request
    callLog,            \* responses of the HTTP calls of this invocation
    ret                 \* return value of make_secure_api_request

vvars == <<vphase, raw, res1, res2>>
svars == <<generated_images, generation_count, daily_limit_reached, cfg,
           rendered, pc, clean_prompt, i, image_urls, callLog, ret>>
vars == <<vphase, raw, res1, res2, generated_images, generation_count,
          daily_limit_reached, cfg, rendered, pc, clean_prompt, i,
          image_urls, callLog, ret>>

----------------------------------------------------------------------------
(* Python values *)

NoneValue == [type |-> "NoneType", text |-> <<>>]
IntValue == [type |-> "int", text |-> <<>>]
Str(s) == [type |-> "str", text |-> s]

\* Python truthiness: None and "" are falsy, a non-zero int is truthy
Truthy(v) == \/ v.type = "int"
             \/ v.type = "str" /\ Len(v.text) > 0

----------------------------------------------------------------------------
(* Security configuration *)

MAX_DAILY_GENERATIONS == 20
MAX_PROMPT_LENGTH == 500
MIN_PROMPT_LENGTH == 5
BLOCKED_WORDS == { <<"n","s","f","w">>,
                   <<"e","x","p","l","i","c","i","t">>,
                   <<"n","u","d","e">>,
                   <<"v","i","o","l","e","n","c","e">>,
                   <<"g","o","r","e">>,
                   <<"s","e","x","u","a","l">> }
\* the grave accent (U+0060) is written "GRAVE": the lexer of SANY does not
\* accept that character inside a string
STRIP_CHARS == {"<", ">", "{", "}", "GRAVE"}
Whitespace == {" ", "\t", "\n", "\r"}

----------------------------------------------------------------------------
(* String primitives *)

UpperLetters == <<"A","B","C","D","E","F","G","H","I","J","K","L","M",
                  "N","O","P","Q","R","S","T","U","V","W","X","Y","Z">>
LowerLetters == <<"a","b","c","d","e","f","g","h","i","j","k","l","m",
                  "n","o","p","q","r","s","t","u","v","w","x","y","z">>

LowerChar(c) ==
    IF \E k \in 1..26 : UpperLetters[k] = c
    THEN LowerLetters[CHOOSE k \in 1..26 : UpperLetters[k] = c]
    ELSE c

\* str.lower()
Lower(s) == [k \in 1..Len(s) |-> LowerChar(s[k])]

RECURSIVE LStrip(_)
LStrip(s) == IF s = <<>> \/ s[1] \notin Whitespace THEN s ELSE LStrip(Tail(s))

RECURSIVE RStrip(_)
RStrip(s) == IF s = <<>> \/ s[Len(s)] \notin Whitespace
             THEN s ELSE RStrip(SubSeq(s, 1, Len(s) - 1))

\* str.strip()
Strip(s) == RStrip(LStrip(s))

\* the substring test (w in s)
Contains(s, w) ==
    \E p \in 1..(Len(s) - Len(w) + 1) : \A k \in 1..Len(w) : s[p + k - 1] = w[k]

\* s.startswith(w)
StartsWith(s, w) == Len(s) >= Len(w) /\ \A k \in 1..Len(w) : s[k] = w[k]

KeepChar(c) == c \notin STRIP_CHARS

\* ''.join(char for char in s if char not in STRIP_CHARS)
RemoveStripChars(s) == SelectSeq(s, KeepChar)

----------------------------------------------------------------------------
(* validate_prompt_security *)

ERR_NONE == "None"
ERR_EMPTY == "Prompt must be a non-empty string"
ERR_SHORT == "Prompt too short - please be more descriptive"
ERR_LONG == "Prompt too long - maximum 500 characters"
ERR_BLOCKED == "Prompt contains inappropriate content"

Rejected(msg) == [is_valid |-> FALSE, cleaned_prompt |-> <<>>, error |-> msg]
Accepted(text) == [is_valid |-> TRUE, cleaned_prompt |-> text, error |-> ERR_NONE]

HasBlockedWord(lowered) == \E w \in BLOCKED_WORDS : Contains(lowered, w)

HasStripChar(s) == \E k \in 1..Len(s) : s[k] \in STRIP_CHARS

Sanitize(s) == IF HasStripChar(s) THEN RemoveStripChars(s) ELSE s

\* variant: the blocklist is matched against the text as typed
validate_prompt_security_CaseSensitive(prompt) ==
    IF ~Truthy(prompt) \/ prompt.type # "str" THEN Rejected(ERR_EMPTY)
    ELSE LET cleaned == Strip(prompt.text) IN
         IF Len(cleaned) < MIN_PROMPT_LENGTH THEN Rejected(ERR_SHORT)
         ELSE IF Len(cleaned) > MAX_PROMPT_LENGTH THEN Rejected(ERR_LONG)
         ELSE IF HasBlockedWord(cleaned) THEN Rejected(ERR_BLOCKED)
         ELSE Accepted(Sanitize(cleaned))

\* variant: the length is tested before the text is trimmed
validate_prompt_security_UntrimmedLength(prompt) ==
    IF ~Truthy(prompt) \/ prompt.type # "str" THEN Rejected(ERR_EMPTY)
    ELSE LET cleaned == Strip(prompt.text) IN
         IF Len(prompt.text) < MIN_PROMPT_LENGTH THEN Rejected(ERR_SHORT)
         ELSE IF Len(prompt.text) > MAX_PROMPT_LENGTH THEN Rejected(ERR_LONG)
         ELSE IF HasBlockedWord(Lower(cleaned)) THEN Rejected(ERR_BLOCKED)
         ELSE Accepted(Sanitize(cleaned))

validate_prompt_security(prompt) ==
    IF ~Truthy(prompt) \/ prompt.type # "str" THEN Rejected(ERR_EMPTY)
    ELSE LET cleaned == Strip(prompt.text) IN
         IF Len(cleaned) < MIN_PROMPT_LENGTH THEN Rejected(ERR_SHORT)
         ELSE IF Len(cleaned) > MAX_PROMPT_LENGTH THEN Rejected(ERR_LONG)
         ELSE IF HasBlockedWord(Lower(cleaned)) THEN Rejected(ERR_BLOCKED)
         ELSE Accepted(Sanitize(cleaned))

----------------------------------------------------------------------------
(* get_api_key_safely *)

KEY_PREFIX == <<"s", "k", "-">>
MIN_KEY_LENGTH == 20

KEY_MISSING == "API key not found in environment variables or secrets"
KEY_BAD_FORMAT == "Invalid API key format"
KEY_TOO_SHORT == "API key too short - possibly invalid"
KEY_FAILED == "Failed to retrieve API key"

\* configuration origins: st.secrets (reading it may raise) and the process
\* environment, which os.getenv and os.environ.get both read
Config(raises, secret, env) ==
    [secrets_raise |-> raises, secrets |-> secret, env |-> env]

\* a or b or c: the first truthy operand, else the last one
FirstTruthy(a, b, c) == IF Truthy(a) THEN a ELSE IF Truthy(b) THEN b ELSE c

\* variant: the length of the key is not checked
get_api_key_safely_NoLength(c) ==
    IF c.secrets_raise THEN [api_key |-> NoneValue, error |-> KEY_FAILED]
    ELSE LET api_key == FirstTruthy(c.secrets, c.env, c.env) IN
         IF ~Truthy(api_key)
         THEN [api_key |-> NoneValue, error |-> KEY_MISSING]
         ELSE IF api_key.type # "str" \/ ~StartsWith(api_key.text, KEY_PREFIX)
         THEN [api_key |-> NoneValue, error |-> KEY_BAD_FORMAT]
         ELSE [api_key |-> api_key, error |-> ERR_NONE]

get_api_key_safely(c) ==
    IF c.secrets_raise THEN [api_key |-> NoneValue, error |-> KEY_FAILED]
    ELSE LET api_key == FirstTruthy(c.secrets, c.env, c.env) IN
         IF ~Truthy(api_key)
         THEN [api_key |-> NoneValue, error |-> KEY_MISSING]
         ELSE IF api_key.type # "str" \/ ~StartsWith(api_key.text, KEY_PREFIX)
         THEN [api_key |-> NoneValue, error |-> KEY_BAD_FORMAT]
         ELSE IF Len(api_key.text) < MIN_KEY_LENGTH
         THEN [api_key |-> NoneValue, error |-> KEY_TOO_SHORT]
         ELSE [api_key |-> api_key, error |-> ERR_NONE]

----------------------------------------------------------------------------
(* check_rate_limits *)

\* variant: the comparison is strict
check_rate_limits_Strict(count) == ~(count > MAX_DAILY_GENERATIONS)

\* the value returned; the assignment of daily_limit_reached that goes with
\* a FALSE answer is made by the page run that calls it
check_rate_limits(count) == ~(count >= MAX_DAILY_GENERATIONS)

----------------------------------------------------------------------------
(* Upstream responses *)

MaxData == 2            \* longest image-data list in a response

Locators == {"urlA", "urlB"}
NoUrl == "no-url-key"   \* a data entry without the key 'url'
DataEntries == Locators \cup {NoUrl}
DataLists == UNION {[1..n -> DataEntries] : n \in 0..MaxData}

Keywords == {"content_policy_violation", "billing", "quota"}

Response(type, status, parse, hasData, data, keywords) ==
    [type |-> type, status |-> status, parse |-> parse, hasData |-> hasData,
     data |-> data, keywords |-> keywords]

\* requests.post raised instead of returning
Raised == {Response(t, 0, FALSE, FALSE, <<>>, {}) :
             t \in {"timeout", "connection", "exception"}}
\* status 200: a body that is not JSON, JSON without 'data', JSON with a list
Status200 == {Response("http", 200, FALSE, FALSE, <<>>, {}),
              Response("http", 200, TRUE, FALSE, <<>>, {})}
             \cup {Response("http", 200, TRUE, TRUE, d, {}) : d \in DataLists}
\* status 400: a body that is not JSON, or an error message, given by the
\* keywords its lower-cased text contains
Status400 == {Response("http", 400, FALSE, FALSE, <<>>, {})}
             \cup {Response("http", 400, TRUE, FALSE, <<>>, k) :
                      k \in SUBSET Keywords}
StatusOther == {Response("http", st, pj, FALSE, <<>>, {}) :
                  st \in {401, 403, 429, 500}, pj \in BOOLEAN}
Responses == Raised \cup Status200 \cup Status400 \cup StatusOther

----------------------------------------------------------------------------
(* make_secure_api_request *)

IMAGE_COUNT == 2        \* range(2)

NoError == [kind |-> "None", status |-> 0, image |-> 0]
Error(kind, status, image) == [kind |-> kind, status |-> status, image |-> image]

\* (False, message): the second component is a message, not a list
Failure(err) == [success |-> FALSE, image_urls |-> <<>>, error |-> err]
\* (True, image_urls)
Success(urls) == [success |-> TRUE, image_urls |-> urls, error |-> NoError]
NoReturn == [success |-> FALSE, image_urls |-> <<>>, error |-> NoError]

KeyErrorKind(msg) ==
    CASE msg = KEY_MISSING -> "CredentialMissing"
      [] msg = KEY_BAD_FORMAT -> "CredentialMalformed"
      [] msg = KEY_TOO_SHORT -> "CredentialTooShort"
      [] OTHER -> "CredentialUnavailable"

\* variant: the last entry of the list is taken
FirstLocatorLast(data) == data[Len(data)]

\* result['data'][0]['url']
FirstLocator(data) == data[1]

Got(url) == [ok |-> TRUE, url |-> url, error |-> NoError]
Failed(err) == [ok |-> FALSE, url |-> NoUrl, error |-> err]

\* status 400: classification of the nested error message
Classify400(resp) ==
    IF ~resp.parse THEN "BadRequest"
    ELSE IF "content_policy_violation" \in resp.keywords THEN "ContentPolicy"
    ELSE IF "billing" \in resp.keywords THEN "Billing"
    ELSE IF "quota" \in resp.keywords THEN "QuotaExceeded"
    ELSE "BadRequest"

\* one iteration of the loop body, for loop index idx (image idx + 1)
ProcessResponse(resp, idx) ==
    IF resp.type = "timeout" THEN Failed(Error("Timeout", 0, 0))
    ELSE IF resp.type = "connection" THEN Failed(Error("ConnectionError", 0, 0))
    ELSE IF resp.type = "exception" THEN Failed(Error("Unexpected", 0, 0))
    ELSE IF resp.status = 200 THEN
        IF ~resp.parse THEN Failed(Error("Unexpected", 0, 0))
        ELSE IF resp.hasData /\ Len(resp.data) > 0 THEN
            IF FirstLocator(resp.data) = NoUrl
            THEN Failed(Error("Unexpected", 0, 0))
            ELSE Got(FirstLocator(resp.data))
        ELSE Failed(Error("NoData", 0, idx + 1))
    ELSE IF resp.status = 429 THEN Failed(Error("RateLimited", 0, 0))
    ELSE IF resp.status = 400 THEN Failed(Error(Classify400(resp), 0, 0))
    ELSE IF resp.status = 401 THEN Failed(Error("AuthFailed", 0, 0))
    ELSE IF resp.status = 403 THEN Failed(Error("Forbidden", 0, 0))
    ELSE Failed(Error("UpstreamError", resp.status, 0))

\* the return after the loop
LoopResult(urls) ==
    IF Len(urls) > 0 THEN Success(urls)
    ELSE Failure(Error("NoImages", 0, 0))

----------------------------------------------------------------------------
(* Inputs of the session *)

Filler(n) == [k \in 1..n |-> "x"]

VALID_KEY == Str(KEY_PREFIX \o Filler(MIN_KEY_LENGTH - 3))
SHORT_KEY == Str(KEY_PREFIX \o Filler(MIN_KEY_LENGTH - 4))
BAD_PREFIX_KEY == Str(<<"p", "k", "-">> \o Filler(MIN_KEY_LENGTH))

Configs == { Config(FALSE, NoneValue, NoneValue),
             Config(FALSE, Str(<<>>), NoneValue),
             Config(FALSE, NoneValue, VALID_KEY),
             Config(FALSE, VALID_KEY, NoneValue),
             Config(FALSE, BAD_PREFIX_KEY, VALID_KEY),
             Config(FALSE, SHORT_KEY, NoneValue),
             Config(FALSE, IntValue, NoneValue),
             Config(TRUE, NoneValue, VALID_KEY) }

\* texts the user may have in the text area when pressing Generate
SessionPrompts ==
    { <<>>,
      <<"h", "i">>,
      <<"a", " ", "N", "s", "F", "w", " ", "c", "a", "t">>,
      <<" ", "a", " ", "<", "r", "e", "d", ">", " ", "c", "a", "t", " ">> }

----------------------------------------------------------------------------
(* Session: page runs of main() *)

SessionInit ==
    /\ generated_images = <<>>
    /\ generation_count = 0
    /\ daily_limit_reached = FALSE
    /\ cfg \in Configs
    /\ rendered = FALSE
    /\ pc = "idle"
    /\ clean_prompt = <<>>
    /\ i = 0
    /\ image_urls = <<>>
    /\ callLog = <<>>
    /\ ret = NoReturn

\* how far the top of main() gets: the credential check, then the rate check
PageTop(c, count) ==
    IF ~Truthy(get_api_key_safely(c).api_key) THEN "no_key"
    ELSE IF ~check_rate_limits(count) THEN "limited"
    ELSE "ok"

\* the session state after a page run that st.stop() ended at top, or that
\* went on to draw the Generate button (disabled=daily_limit_reached)
StopOrDraw(top) ==
    /\ daily_limit_reached' = (daily_limit_reached \/ top = "limited")
    /\ rendered' = (top = "ok" /\ ~daily_limit_reached)
    /\ pc' = "idle"

\* a page run in which no button was pressed: the first load, a refresh, or
\* the run that st.rerun() starts
PageRun ==
    /\ pc \in {"idle", "rerun"}
    /\ StopOrDraw(PageTop(cfg, generation_count))
    /\ UNCHANGED <<generated_images, generation_count, cfg, clean_prompt, i,
                   image_urls, callLog, ret>>

\* the page run started by pressing Generate with text p in the text area,
\* up to the call of make_secure_api_request
GenerateClick(p) ==
    /\ pc = "idle"
    /\ rendered
    /\ LET top == PageTop(cfg, generation_count)
           v == validate_prompt_security(Str(p))
       IN IF top = "ok" /\ ~daily_limit_reached /\ Truthy(Str(p)) /\ v.is_valid
          THEN /\ pc' = "request"
               /\ clean_prompt' = v.cleaned_prompt
               /\ UNCHANGED <<daily_limit_reached, rendered>>
          ELSE /\ StopOrDraw(top)
               /\ UNCHANGED clean_prompt
    /\ UNCHANGED <<generated_images, generation_count, cfg, i, image_urls,
                   callLog, ret>>

\* make_secure_api_request up to the loop
ApiRequestStart ==
    /\ pc = "request"
    /\ LET key == get_api_key_safely(cfg) IN
       IF ~Truthy(key.api_key)
       THEN /\ ret' = Failure(Error(KeyErrorKind(key.error), 0, 0))
            /\ pc' = "returned"
       ELSE /\ ret' = NoReturn
            /\ pc' = "calling"
    /\ i' = 0
    /\ image_urls' = <<>>
    /\ callLog' = <<>>
    /\ UNCHANGED <<generated_images, generation_count, daily_limit_reached,
                   cfg, rendered, clean_prompt>>

\* variant: a failure after a success returns the locators obtained so far
HttpCallPartial(resp) ==
    /\ pc = "calling"
    /\ i < IMAGE_COUNT
    /\ callLog' = Append(callLog, resp)
    /\ LET out == ProcessResponse(resp, i) IN
       IF out.ok
       THEN /\ image_urls' = Append(image_urls, out.url)
            /\ i' = i + 1
            /\ IF i + 1 < IMAGE_COUNT
               THEN UNCHANGED <<pc, ret>>
               ELSE /\ ret' = LoopResult(image_urls')
                    /\ pc' = "returned"
       ELSE /\ ret' = IF image_urls # <<>> THEN Success(image_urls)
                      ELSE Failure(out.error)
            /\ pc' = "returned"
            /\ UNCHANGED <<i, image_urls>>
    /\ UNCHANGED <<generated_images, generation_count, daily_limit_reached,
                   cfg, rendered, clean_prompt>>

\* variant: a failed call is skipped and the loop goes on
HttpCallContinue(resp) ==
    /\ pc = "calling"
    /\ i < IMAGE_COUNT
    /\ callLog' = Append(callLog, resp)
    /\ LET out == ProcessResponse(resp, i) IN
       /\ image_urls' = IF out.ok THEN Append(image_urls, out.url)
                        ELSE image_urls
       /\ i' = i + 1
       /\ IF i + 1 < IMAGE_COUNT
          THEN UNCHANGED <<pc, ret>>
          ELSE /\ ret' = LoopResult(image_urls')
               /\ pc' = "returned"
    /\ UNCHANGED <<generated_images, generation_count, daily_limit_reached,
                   cfg, rendered, clean_prompt>>

\* one requests.post and the handling of its outcome; the last iteration
\* also takes the return after the loop
HttpCall(resp) ==
    /\ pc = "calling"
    /\ i < IMAGE_COUNT
    /\ callLog' = Append(callLog, resp)
    /\ LET out == ProcessResponse(resp, i) IN
       IF out.ok
       THEN /\ image_urls' = Append(image_urls, out.url)
            /\ i' = i + 1
            /\ IF i + 1 < IMAGE_COUNT
               THEN UNCHANGED <<pc, ret>>
               ELSE /\ ret' = LoopResult(image_urls')
                    /\ pc' = "returned"
       ELSE /\ ret' = Failure(out.error)
            /\ pc' = "returned"
            /\ UNCHANGED <<i, image_urls>>
    /\ UNCHANGED <<generated_images, generation_count, daily_limit_reached,
                   cfg, rendered, clean_prompt>>

\* variant: the generation is counted whether or not it succeeded
HandleResultCountsAll ==
    /\ pc = "returned"
    /\ generation_count' = generation_count + 1
    /\ IF ret.success
       THEN /\ generated_images' = ret.image_urls
            /\ rendered' = FALSE
            /\ pc' = "rerun"
       ELSE /\ pc' = "idle"
            /\ UNCHANGED <<generated_images, rendered>>
    /\ clean_prompt' = <<>>
    /\ i' = 0
    /\ image_urls' = <<>>
    /\ callLog' = <<>>
    /\ ret' = NoReturn
    /\ UNCHANGED <<daily_limit_reached, cfg>>

\* main() after make_secure_api_request returned
HandleResult ==
    /\ pc = "returned"
    /\ IF ret.success
       THEN /\ generated_images' = ret.image_urls
            /\ generation_count' = generation_count + 1
            /\ rendered' = FALSE
            /\ pc' = "rerun"
       ELSE /\ pc' = "idle"
            /\ UNCHANGED <<generated_images, generation_count, rendered>>
    /\ clean_prompt' = <<>>
    /\ i' = 0
    /\ image_urls' = <<>>
    /\ callLog' = <<>>
    /\ ret' = NoReturn
    /\ UNCHANGED <<daily_limit_reached, cfg>>

\* the deployment's secrets or environment are edited; the credential is
\* read at the top of a page run and at the start of a request only
ConfigChange(c) ==
    /\ pc \in {"idle", "request", "rerun"}
    /\ c # cfg
    /\ cfg' = c
    /\ UNCHANGED <<generated_images, generation_count, daily_limit_reached,
                   rendered, pc, clean_prompt, i, image_urls, callLog, ret>>

ValidatorOff ==
    /\ vphase = "off"
    /\ raw = NoneValue
    /\ res1 = Rejected(ERR_NONE)
    /\ res2 = Rejected(ERR_NONE)

Init == ValidatorOff /\ SessionInit

Next ==
    \/ PageRun /\ UNCHANGED vvars
    \/ (\E p \in SessionPrompts : GenerateClick(p)) /\ UNCHANGED vvars
    \/ ApiRequestStart /\ UNCHANGED vvars
    \/ (\E resp \in Responses : HttpCall(resp)) /\ UNCHANGED vvars
    \/ HandleResult /\ UNCHANGED vvars
    \/ (\E c \in Configs : ConfigChange(c)) /\ UNCHANGED vvars

Spec == Init /\ [][Next]_vars

----------------------------------------------------------------------------
(* The validator on its own: validate_prompt_security applied to an input, *)
(* then applied again to the text it accepted                              *)

MaxTokens == 3          \* number of pieces an input is put together from

\* a run of letters that brings an input to within 4 characters of the
\* maximum length
LongRun == [k \in 1..(MAX_PROMPT_LENGTH - 4) |-> "a"]

Tokens == { <<" ">>,
            <<"\t", "\n">>,
            <<"<">>,
            <<">", "{", "}", "GRAVE">>,
            <<"c", "a", "t">>,
            <<"n", "u">>,
            <<"d", "e">>,
            <<"N", "s", "F", "w">>,
            <<"G", "o", "r", "e">>,
            <<"e", "X", "p", "l", "i", "c", "i", "t">>,
            <<"S", "E", "X", "U", "A", "L">>,
            <<"V", "i", "o", "l", "e", "n", "c", "e">>,
            LongRun }

RECURSIVE Flatten(_)
Flatten(ts) == IF ts = <<>> THEN <<>> ELSE Head(ts) \o Flatten(Tail(ts))

Inputs == {NoneValue, IntValue}
          \cup {Str(Flatten(ts)) :
                   ts \in UNION {[1..n -> Tokens] : n \in 0..MaxTokens}}

SessionOff ==
    /\ generated_images = <<>>
    /\ generation_count = 0
    /\ daily_limit_reached = FALSE
    /\ cfg = Config(FALSE, NoneValue, NoneValue)
    /\ rendered = FALSE
    /\ pc = "off"
    /\ clean_prompt = <<>>
    /\ i = 0
    /\ image_urls = <<>>
    /\ callLog = <<>>
    /\ ret = NoReturn

InitValidate ==
    /\ vphase = "input"
    /\ raw \in Inputs
    /\ res1 = Rejected(ERR_NONE)
    /\ res2 = Rejected(ERR_NONE)
    /\ SessionOff

Validate ==
    /\ vphase = "input"
    /\ res1' = validate_prompt_security(raw)
    /\ vphase' = "validated"
    /\ UNCHANGED <<raw, res2>>

Revalidate ==
    /\ vphase = "validated"
    /\ res1.is_valid
    /\ res2' = validate_prompt_security(Str(res1.cleaned_prompt))
    /\ vphase' = "revalidated"
    /\ UNCHANGED <<raw, res1>>

NextValidate ==
    \/ Validate /\ UNCHANGED svars
    \/ Revalidate /\ UNCHANGED svars

SpecValidate == InitValidate /\ [][NextValidate]_vars

----------------------------------------------------------------------------
(* Properties of validate_prompt_security, checked under SpecValidate *)

Validated == vphase \in {"validated", "revalidated"}

\* the input is a string that has a blocklisted word in it, in any letter case
BlockedInput == raw.type = "str" /\ HasBlockedWord(Lower(raw.text))

TrimmedLength == Len(Strip(raw.text))

\* C4, as stated: every string containing a blocklisted word in any letter
\* case is rejected as inappropriate content, whatever its length.
C4_BlockedWhateverLength ==
    (Validated /\ BlockedInput) => res1 = Rejected(ERR_BLOCKED)

\* C4, amended: a string containing a blocklisted word in any letter case is
\* always rejected; the reason is inappropriate content when its trimmed
\* length is between 5 and 500, too short below 5 and too long above 500.
C4_BlockedWithinLength ==
    (Validated /\ BlockedInput) =>
        /\ ~res1.is_valid
        /\ res1.cleaned_prompt = <<>>
        /\ (TrimmedLength >= 5 /\ TrimmedLength <= 500) => res1.error = ERR_BLOCKED
        /\ TrimmedLength < 5 => res1.error = ERR_SHORT
        /\ TrimmedLength > 500 => res1.error = ERR_LONG

\* a 500-character input, upper-case letters in its blocklisted word, rejected
\* as inappropriate content
C4_Witness ==
    /\ Validated
    /\ BlockedInput
    /\ ~HasBlockedWord(raw.text)
    /\ TrimmedLength = 500
    /\ res1.error = ERR_BLOCKED

\* C5: validation is idempotent on accepted input: validating the accepted
\* text again accepts it and yields the same text.
C5_Idempotent ==
    vphase = "revalidated" => res2 = res1

\* C6: every accepted text is itself within the length range 5..500 and has
\* no blocklisted word in it, also after the stripped characters are removed.
C6_AcceptedTextIsValid ==
    (Validated /\ res1.is_valid) =>
        /\ Len(res1.cleaned_prompt) >= 5
        /\ Len(res1.cleaned_prompt) <= 500
        /\ ~HasBlockedWord(Lower(res1.cleaned_prompt))
        /\ ~HasBlockedWord(Lower(RemoveStripChars(res1.cleaned_prompt)))

\* C7, as stated: every string whose trimmed length is below 5, the empty
\* string included, is rejected as too short.
C7_ShortIsTooShort ==
    (Validated /\ raw.type = "str" /\ TrimmedLength < 5) =>
        res1 = Rejected(ERR_SHORT)

\* C7, amended: every non-empty string whose trimmed length is below 5,
\* whitespace-only strings included, is rejected as too short; the empty
\* string is rejected as not being a non-empty string.
C7_NonEmptyShortIsTooShort ==
    (Validated /\ raw.type = "str" /\ TrimmedLength < 5) =>
        res1 = Rejected(IF raw.text = <<>> THEN ERR_EMPTY ELSE ERR_SHORT)

\* an input of at least 5 characters, whitespace at both ends, whose trimmed
\* length is below 5, rejected as too short
C7_Witness ==
    /\ Validated
    /\ raw.type = "str"
    /\ Len(raw.text) >= 5
    /\ raw.text[1] \in Whitespace
    /\ raw.text[Len(raw.text)] \in Whitespace
    /\ TrimmedLength > 0
    /\ TrimmedLength < 5
    /\ res1.error = ERR_SHORT

----------------------------------------------------------------------------
(* Properties of make_secure_api_request and the session, checked under Spec *)

\* a response with status 200 whose image-data list is non-empty and starts
\* with a locator
GoodResponse(r) ==
    /\ r.type = "http"
    /\ r.status = 200
    /\ r.parse
    /\ r.hasData
    /\ Len(r.data) > 0
    /\ r.data[1] \in Locators

\* the failure kind each failing outcome of a call stands for
ExpectedKind(r) ==
    CASE r.type = "timeout" -> "Timeout"
      [] r.type = "connection" -> "ConnectionError"
      [] r.type = "exception" -> "Unexpected"
      [] r.type = "http" /\ r.status = 429 -> "RateLimited"
      [] r.type = "http" /\ r.status = 401 -> "AuthFailed"
      [] r.type = "http" /\ r.status = 403 -> "Forbidden"
      [] r.type = "http" /\ r.status = 500 -> "UpstreamError"
      [] r.type = "http" /\ r.status = 400 /\ ~r.parse -> "BadRequest"
      [] r.type = "http" /\ r.status = 400 /\ r.parse ->
            IF "content_policy_violation" \in r.keywords THEN "ContentPolicy"
            ELSE IF "billing" \in r.keywords THEN "Billing"
            ELSE IF "quota" \in r.keywords THEN "QuotaExceeded"
            ELSE "BadRequest"
      [] r.type = "http" /\ r.status = 200 /\ r.parse
            /\ (~r.hasData \/ r.data = <<>>) -> "NoData"
      [] OTHER -> "Unexpected"

Calls == Len(callLog)

\* C1: when every call of an invocation answers 200 with a non-empty data
\* list, the invocation returns success with exactly 2 locators, and the
\* k-th locator is the first locator of the k-th call's response.
C1_AllCallsSucceed ==
    (pc = "returned" /\ Calls > 0
        /\ \A k \in 1..Calls : GoodResponse(callLog[k])) =>
        /\ ret.success
        /\ ret.error = NoError
        /\ Calls = 2
        /\ Len(ret.image_urls) = 2
        /\ \A k \in 1..2 : ret.image_urls[k] = callLog[k].data[1]

\* two calls answered with lists of two entries; the result is the two
\* first entries, which differ from each other and from the second entries
C1_Witness ==
    /\ pc = "returned"
    /\ ret.success
    /\ ret.image_urls = <<"urlA", "urlB">>
    /\ Calls = 2
    /\ callLog[1].data = <<"urlA", "urlB">>
    /\ callLog[2].data = <<"urlB", "urlA">>

\* C2: when an earlier call succeeded and a later call fails, the invocation
\* returns a failure of the kind of the first failing call and no locators;
\* a result is never both a success with locators and a failure; and the
\* locators accumulated before the failure do not reach the session.
C2_FailureAfterSuccess ==
    /\ [](pc = "returned" =>
            /\ ret.success => (ret.error = NoError /\ ret.image_urls # <<>>)
            /\ ~ret.success => (ret.error # NoError /\ ret.image_urls = <<>>)
            /\ \A k \in 2..Calls :
                  ((\A j \in 1..(k - 1) : GoodResponse(callLog[j]))
                      /\ ~GoodResponse(callLog[k])) =>
                  /\ ~ret.success
                  /\ ret.image_urls = <<>>
                  /\ ret.error.kind = ExpectedKind(callLog[k]))
    /\ [][(pc = "returned" /\ ~ret.success) =>
            generated_images' = generated_images]_vars

\* the first call gave a locator, the second one answered 429
C2_Witness ==
    /\ pc = "returned"
    /\ Calls = 2
    /\ GoodResponse(callLog[1])
    /\ callLog[2].status = 429
    /\ image_urls # <<>>
    /\ ret = Failure(Error("RateLimited", 0, 0))

\* C3: no call is issued after a call that failed: an invocation issues at
\* most 2 calls, one at a time, every call before the latest one succeeded,
\* and a failed call ends the invocation.
C3_NoCallAfterFailure ==
    /\ [](/\ Calls <= 2
          /\ \A k \in 1..(Calls - 1) : GoodResponse(callLog[k])
          /\ (Calls > 0 /\ ~GoodResponse(callLog[Calls])) =>
                (pc = "returned" /\ ~ret.success))
    /\ [][Len(callLog') > Calls =>
            /\ Len(callLog') = Calls + 1
            /\ SubSeq(callLog', 1, Calls) = callLog
            /\ \A k \in 1..Calls : GoodResponse(callLog[k])]_vars

\* an invocation that ended at its first call, which failed
C3_Witness ==
    /\ pc = "returned"
    /\ Calls = 1
    /\ ~GoodResponse(callLog[1])
    /\ ~ret.success

\* the configuration supplies a well-formed credential
CredentialUsable(c) ==
    /\ ~c.secrets_raise
    /\ LET v == IF Truthy(c.secrets) THEN c.secrets ELSE c.env IN
       /\ v.type = "str"
       /\ Len(v.text) >= 20
       /\ SubSeq(v.text, 1, 3) = <<"s", "k", "-">>

CredentialKinds == {"CredentialMissing", "CredentialMalformed",
                    "CredentialTooShort", "CredentialUnavailable"}

\* C8: without a well-formed credential make_secure_api_request returns a
\* credential failure and issues no call, and a page run does not get as
\* far as the Generate action.
C8_NoCredentialNoCall ==
    /\ [](/\ pc = "calling" => CredentialUsable(cfg)
          /\ (pc = "returned" /\ ~CredentialUsable(cfg)) =>
                /\ ~ret.success
                /\ ret.error.kind \in CredentialKinds
                /\ Calls = 0)
    /\ [][/\ Len(callLog') > Calls => CredentialUsable(cfg)
          /\ (pc = "idle" /\ pc' = "request") => CredentialUsable(cfg)
          /\ (pc = "request" /\ ~CredentialUsable(cfg)) =>
                (pc' = "returned" \/ pc' = "request")]_vars

\* the credential went missing between the page's check and the request's
C8_Witness ==
    /\ pc = "returned"
    /\ cfg.secrets = NoneValue
    /\ cfg.env = NoneValue
    /\ ~cfg.secrets_raise
    /\ ret = Failure(Error("CredentialMissing", 0, 0))
    /\ Calls = 0

\* C9: generation_count never decreases; it changes only by +1 and only in a
\* step where the invocation returned success; every other step, a failed
\* invocation included, leaves it and generated_images unchanged.
C9_CountOnlyOnSuccess ==
    [][\/ /\ generation_count' = generation_count
          /\ generated_images' = generated_images
       \/ /\ generation_count' = generation_count + 1
          /\ pc = "returned"
          /\ ret.success
          /\ generated_images' = ret.image_urls]_vars

\* after an earlier success, an invocation failed at its second call
C9_Witness ==
    /\ generation_count = 1
    /\ generated_images # <<>>
    /\ pc = "returned"
    /\ ~ret.success
    /\ Len(image_urls) = 1

\* C10: generation_count never exceeds 20, no call is issued once it is 20,
\* and daily_limit_reached is true only at 20 and is never cleared.
C10_DailyCap ==
    /\ [](/\ generation_count <= 20
          /\ pc \in {"request", "calling", "returned"} => generation_count < 20
          /\ daily_limit_reached => generation_count >= 20)
    /\ [][/\ Len(callLog') > Calls => generation_count < 20
          /\ daily_limit_reached => daily_limit_reached']_vars

\* the cap was reached and the next page run recorded it
C10_Witness ==
    /\ generation_count = 20
    /\ daily_limit_reached
    /\ ~rendered

====
